---- MODULE Spec2Model ----
(***************************************************************************)
(* A model of the two ArtificialAnalysis reconnaissance scripts            *)
(*   intelligent-discovery/scripts/artificialanalysis_api_client.py        *)
(*   intelligent-discovery/scripts/artificialanalysis_explorer.py          *)
(*                                                                         *)
(* Encoding of Python values.  Data that comes off the wire is a Python    *)
(* value in tagged form: None, PyStr, PyBool, PyNum, PyList, PyDict.  A    *)
(* str is a sequence of symbols; one symbol stands for a run of            *)
(* characters, and a JSON document is the sequence of its lexical symbols. *)
(* A dict the code builds from literal keys is a TLA+ record (a function   *)
(* from key to value), and a field whose Python type the code fixes        *)
(* (status, error, accessible, status_code) holds a plain TLA+ value.      *)
(* A computation is a completion: Ok(v) when it returns v, Raise(e) when   *)
(* it raises an exception whose str() is e.                                *)
(***************************************************************************)
EXTENDS Integers, Sequences, FiniteSets, TLC

\* ------------------------------------------------------------ Python values

None == [none |-> TRUE]
PyStr(s) == [str |-> s]
PyBool(b) == [bool |-> b]
PyNum(n) == [num |-> n]
PyList(xs) == [arr |-> xs]
PyDict(f) == [obj |-> f]

IsNone(v) == "none" \in DOMAIN v
IsStr(v) == "str" \in DOMAIN v
IsDict(v) == "obj" \in DOMAIN v
IsList(v) == "arr" \in DOMAIN v

\* Python truthiness, as `not api_key` uses it.
Truthy(v) ==
    CASE IsNone(v) -> FALSE
      [] IsStr(v) -> v.str # <<>>
      [] "bool" \in DOMAIN v -> v.bool
      [] IsList(v) -> v.arr # <<>>
      [] IsDict(v) -> DOMAIN v.obj # {}
      [] OTHER -> TRUE

\* Completions.  ev is what the computation did on the way: the network requests
\* it issued and the sleeps it took, in order.
Ok(v) == [raised |-> FALSE, val |-> v, ev |-> <<>>]
Raise(e) == [raised |-> TRUE, exc |-> e, ev |-> <<>>]
After(evs, c) == [c EXCEPT !.ev = evs \o @]

\* c, then F on its value: sequencing, with an exception of c propagating.
Bind(c, F(_)) == IF c.raised THEN c ELSE After(c.ev, F(c.val))
Then(c, d) == IF c.raised THEN c ELSE After(c.ev, d)
\* try: c  except Exception as e: H(e)
Catch(c, H(_)) == IF c.raised THEN After(c.ev, H(c.exc)) ELSE c

\* A dict built by the code: the empty dict, d[k] = v, and d.get(k).
EmptyDict == <<>>
SetItem(d, k, v) == (k :> v) @@ d
Absent == [absent |-> TRUE]
GetItem(d, k) == IF k \in DOMAIN d THEN d[k] ELSE Absent

\* ------------------------------------------------------------------- JSON

NumLits == {"0", "5", "200", "201", "401", "404", "500"}
QUOTE == "\""

BACKSLASH == "\\"
\* Inside a JSON string a quote and a backslash are written escaped.
EscapeSym(a) ==
    CASE a = QUOTE -> "\\\""
      [] a = BACKSLASH -> "\\\\"
      [] a = "\n" -> "\\n"
      [] OTHER -> a
UnescapeSym(a) ==
    CASE a = "\\\"" -> QUOTE
      [] a = "\\\\" -> BACKSLASH
      [] a = "\\n" -> "\n"
      [] OTHER -> a
Escape(s) == [i \in DOMAIN s |-> EscapeSym(s[i])]

\* The whitespace json.dump(..., indent=2) puts between the symbols, and that
\* the parser skips.
NEWLINE == "\n"
INDENT == "  "
IsSpace(a) == a \in {NEWLINE, INDENT, " "}

RECURSIVE KeySeq(_)
KeySeq(ks) ==
    IF ks = {} THEN <<>>
    ELSE LET k == CHOOSE x \in ks : TRUE IN <<k>> \o KeySeq(ks \ {k})

RECURSIVE dumps(_, _)
RECURSIVE dump_items(_, _)
RECURSIVE dump_members(_, _, _)
\* The text of a value: as JSON (py = FALSE), or as Python's repr (py = TRUE).
dumps(v, py) ==
    CASE IsNone(v) -> IF py THEN <<"None">> ELSE <<"null">>
      [] "bool" \in DOMAIN v ->
           IF v.bool THEN (IF py THEN <<"True">> ELSE <<"true">>)
           ELSE (IF py THEN <<"False">> ELSE <<"false">>)
      [] "num" \in DOMAIN v -> <<v.num>>
      [] IsStr(v) ->
           IF py THEN <<"'">> \o v.str \o <<"'">> ELSE <<QUOTE>> \o Escape(v.str) \o <<QUOTE>>
      [] IsList(v) -> <<"[">> \o dump_items(v.arr, py) \o <<"]">>
      [] IsDict(v) -> <<"{">> \o dump_members(v.obj, KeySeq(DOMAIN v.obj), py) \o <<"}">>

dump_items(xs, py) ==
    IF xs = <<>> THEN <<>>
    ELSE dumps(Head(xs), py)
         \o (IF Len(xs) > 1 THEN <<",">> \o dump_items(Tail(xs), py) ELSE <<>>)

dump_members(f, ks, py) ==
    IF ks = <<>> THEN <<>>
    ELSE dumps(PyStr(Head(ks)), py) \o <<":">> \o dumps(f[Head(ks)], py)
         \o (IF Len(ks) > 1 THEN <<",">> \o dump_members(f, Tail(ks), py) ELSE <<>>)

json_dumps(v) == dumps(v, FALSE)

RECURSIVE Indent(_)
Indent(d) == IF d = 0 THEN <<>> ELSE <<INDENT>> \o Indent(d - 1)

RECURSIVE dump_indent(_, _)
RECURSIVE dump_items_indent(_, _)
RECURSIVE dump_members_indent(_, _, _)
\* The text json.dump(v, f, indent=2) writes, v standing at depth d.
dump_indent(v, d) ==
    CASE IsList(v) /\ v.arr # <<>> ->
           <<"[", NEWLINE>> \o dump_items_indent(v.arr, d + 1)
           \o <<NEWLINE>> \o Indent(d) \o <<"]">>
      [] IsDict(v) /\ DOMAIN v.obj # {} ->
           <<"{", NEWLINE>> \o dump_members_indent(v.obj, KeySeq(DOMAIN v.obj), d + 1)
           \o <<NEWLINE>> \o Indent(d) \o <<"}">>
      [] OTHER -> dumps(v, FALSE)

dump_items_indent(xs, d) ==
    Indent(d) \o dump_indent(Head(xs), d)
    \o (IF Len(xs) > 1 THEN <<",", NEWLINE>> \o dump_items_indent(Tail(xs), d) ELSE <<>>)

dump_members_indent(f, ks, d) ==
    Indent(d) \o dumps(PyStr(Head(ks)), FALSE) \o <<":", " ">> \o dump_indent(f[Head(ks)], d)
    \o (IF Len(ks) > 1 THEN <<",", NEWLINE>> \o dump_members_indent(f, Tail(ks), d) ELSE <<>>)

\* What the file would hold had str(obj) been written in place of the encoding.
json_dump_repr(obj) == dumps(obj, TRUE)
\* json.dump(obj, f, indent=2, default=str): every value of a report is a
\* dict, list, str, int, bool or None, so the encoder never turns to default.
json_dump(obj) == dump_indent(obj, 0)

\* str(v)
py_str(v) == IF IsStr(v) THEN v.str ELSE dumps(v, TRUE)

RECURSIVE skip_space(_, _)
\* The parser passes over whitespace between symbols: the first place from i
\* on that holds none.
skip_space(ts, i) == IF i <= Len(ts) /\ IsSpace(ts[i]) THEN skip_space(ts, i + 1) ELSE i

\* A parse of a part of the text: the value, and the place of the next symbol.
PFail == [ok |-> FALSE]
POk(ts, v, next) == [ok |-> TRUE, val |-> v, next |-> skip_space(ts, next)]

RECURSIVE parse_value(_, _)
RECURSIVE parse_string(_, _, _)
RECURSIVE parse_elems(_, _, _)
RECURSIVE parse_members(_, _, _)

\* The symbols after an opening quote, up to the closing one.
parse_string(ts, acc, i) ==
    IF i > Len(ts) THEN PFail
    ELSE IF ts[i] = QUOTE THEN POk(ts, PyStr(acc), i + 1)
    ELSE parse_string(ts, Append(acc, UnescapeSym(ts[i])), i + 1)

parse_value(ts, i0) ==
    IF skip_space(ts, i0) > Len(ts) THEN PFail
    ELSE LET i == skip_space(ts, i0)
             t == ts[i]
             r == skip_space(ts, i + 1)
         IN CASE t = "null" -> POk(ts, None, i + 1)
              [] t = "true" -> POk(ts, PyBool(TRUE), i + 1)
              [] t = "false" -> POk(ts, PyBool(FALSE), i + 1)
              [] t \in NumLits -> POk(ts, PyNum(t), i + 1)
              [] t = QUOTE -> parse_string(ts, <<>>, i + 1)
              [] t = "[" -> IF r <= Len(ts) /\ ts[r] = "]"
                            THEN POk(ts, PyList(<<>>), r + 1)
                            ELSE parse_elems(ts, <<>>, r)
              [] t = "{" -> IF r <= Len(ts) /\ ts[r] = "}"
                            THEN POk(ts, PyDict(<<>>), r + 1)
                            ELSE parse_members(ts, <<>>, r)
              [] OTHER -> PFail

parse_elems(ts, acc, i) ==
    LET p == parse_value(ts, i) IN
    IF ~p.ok THEN PFail
    ELSE IF p.next > Len(ts) THEN PFail
    ELSE IF ts[p.next] = "]" THEN POk(ts, PyList(Append(acc, p.val)), p.next + 1)
    ELSE IF ts[p.next] = "," THEN parse_elems(ts, Append(acc, p.val), p.next + 1)
    ELSE PFail

parse_members(ts, acc, i0) ==
    LET i == skip_space(ts, i0) IN
    IF i > Len(ts) \/ ts[i] # QUOTE THEN PFail
    ELSE LET k == parse_string(ts, <<>>, i + 1) IN
         IF ~k.ok \/ k.next > Len(ts) \/ ts[k.next] # ":" THEN PFail
         ELSE LET p == parse_value(ts, k.next + 1) IN
              IF ~p.ok \/ p.next > Len(ts) THEN PFail
              ELSE LET m == SetItem(acc, k.val.str, p.val) IN
                   IF ts[p.next] = "}" THEN POk(ts, PyDict(m), p.next + 1)
                   ELSE IF ts[p.next] = "," THEN parse_members(ts, m, p.next + 1)
                   ELSE PFail

\* json.loads / json.load: the text must hold one value and nothing after it.
json_loads(ts) ==
    LET p == parse_value(ts, 1) IN
    IF p.ok /\ p.next > Len(ts) THEN Ok(p.val) ELSE Raise("JSONDecodeError")

\* ------------------------------------------------------- text and keywords

\* str.lower(), symbol by symbol.
LowerSym(a) ==
    CASE a = "GPT" -> "gpt"
      [] a = "Security" -> "security"
      [] a = "ArtificialAnalysis" -> "artificialanalysis"
      [] OTHER -> a

lower(s) == [i \in DOMAIN s |-> LowerSym(s[i])]

\* `kw in s` for a keyword that is one symbol.
Contains(s, kw) == \E i \in DOMAIN s : s[i] = kw

\* ------------------------------------------------------------ the network

\* Documents the servers may answer with.
ModelsDoc == PyDict(<<"data">> :> PyList(<<PyDict(<<"name">> :> PyStr(<<"model-a">>))>>))
EndpointsDoc ==
    PyDict(<<"availableEndpoints">> :> PyList(<<PyStr(<<"/api/query">>), PyStr(<<"/health">>)>>))
AnswerDoc ==
    PyDict(<<"response">> :> PyStr(<<"GPT", QUOTE, "benchmark", QUOTE, "for", "ArtificialAnalysis">>))
FilteredDoc == PyDict(<<"response">> :> PyStr(<<"API key", "withheld", "for", "Security">>))
JsonDocs ==
    {ModelsDoc, EndpointsDoc, AnswerDoc, FilteredDoc, PyDict(<<>>), PyList(<<>>),
     None, PyStr(<<"ok">>), PyNum("5"), PyBool(TRUE)}

HtmlBody == <<"<html lang=", QUOTE, "en", QUOTE, ">", "Not Found", "</html>">>

JsonHeaders == "content-type" :> "application/json"
JsonCharsetHeaders == "content-type" :> "application/json; charset=utf-8"
HtmlHeaders == "content-type" :> "text/html"
NoHeaders == <<>>
RateHeaders ==
    ("content-type" :> "application/json")
    @@ ("X-RateLimit-Remaining" :> PyStr(<<"998">>))
    @@ ("X-RateLimit-Reset" :> PyStr(<<"86400">>))

\* The outcome of one network call: a transport fault, or an HTTP response.  A
\* response that carries a JSON document also names that document (doc): the
\* server's side of the exchange, which the client never reads.
Fault(e) == [kind |-> "fault", exc |-> e]
JsonResponse(code, headers, doc) ==
    [kind |-> "response", status_code |-> code, headers |-> headers,
     body |-> json_dumps(doc), doc |-> doc]
RawResponse(code, headers, body) ==
    [kind |-> "response", status_code |-> code, headers |-> headers, body |-> body]

IsFault(o) == o.kind = "fault"

ApiOutcomes ==
    {Fault("ConnectionError"), Fault("Timeout")}
    \cup {JsonResponse(200, JsonHeaders, d) : d \in JsonDocs}
    \cup {JsonResponse(200, RateHeaders, ModelsDoc),
          JsonResponse(201, JsonHeaders, ModelsDoc),
          JsonResponse(401, JsonHeaders, PyDict(<<"error">> :> PyStr(<<"unauthorized">>))),
          JsonResponse(404, JsonHeaders, EndpointsDoc),
          RawResponse(200, JsonHeaders, HtmlBody),
          RawResponse(200, HtmlHeaders, HtmlBody),
          RawResponse(200, JsonHeaders, <<>>),
          RawResponse(404, HtmlHeaders, HtmlBody),
          RawResponse(500, NoHeaders, <<"Internal Server Error">>)}

\* --------------------------------------------------- the HTTP primitives

Request(via, url, key) == [ev |-> "request", via |-> via, url |-> url, x_api_key |-> key]
Sleep(ms) == [ev |-> "sleep", ms |-> ms]
IsRequest(e) == e.ev = "request"
Requests(evs) == SelectSeq(evs, IsRequest)

\* session.get / session.post: one request; the response object, or the
\* transport's exception.
session_request(via, url, key, o) ==
    After(<<Request(via, url, key)>>, IF IsFault(o) THEN Raise(o.exc) ELSE Ok(o))

\* response.raise_for_status(): HTTPError for a 4xx or 5xx status.
raise_for_status(resp) ==
    IF resp.status_code >= 400 /\ resp.status_code < 600 THEN Raise("HTTPError") ELSE Ok(resp)

\* A response.json() that hands back the text of the body, unparsed.
response_json_text(resp) == Ok(PyStr(resp.body))
\* response.json()
response_json(resp) == json_loads(resp.body)

headers_get(resp, name, default) ==
    IF name \in DOMAIN resp.headers THEN resp.headers[name] ELSE default

\* subprocess.run(['curl', '-s', ...], timeout=30): one request.  curl exits 0
\* with the body on stdout for any HTTP status, exits non-zero (silently, -s)
\* when it cannot connect, and run() raises TimeoutExpired when the transfer hangs.
subprocess_run(url, key, o) ==
    After(<<Request("curl", url, key)>>,
          IF IsFault(o)
          THEN IF o.exc = "Timeout" THEN Raise("TimeoutExpired")
               ELSE Ok([returncode |-> 7, stdout |-> <<>>, stderr |-> ""])
          ELSE Ok([returncode |-> 0, stdout |-> o.body, stderr |-> ""]))

time_sleep(ms) == After(<<Sleep(ms)>>, Ok(None))

\* A request that carries no x-api-key header.
NoKey == Absent

\* ------------------------------------------- ArtificialAnalysisClient (API)

proxy_base_url == "https://askme-backend-proxy.onrender.com"
api_base_url == "https://artificialanalysis.ai/api/v2"

valid_types ==
    <<"text-to-image", "image-editing", "text-to-speech", "text-to-video", "image-to-video">>
media_types ==
    <<"text-to-image", "image-editing", "text-to-speech", "text-to-video", "image-to-video">>

Range(s) == {s[i] : i \in DOMAIN s}

\* f"Invalid media type. Must be one of: {valid_types}"
invalid_media_type_message ==
    "Invalid media type. Must be one of: ['text-to-image', 'image-editing', 'text-to-speech', 'text-to-video', 'image-to-video']"

\* The try block of get_llm_models_direct.
llm_models_try(hr, key, o) ==
    IF hr
    THEN Bind(session_request("session.get", <<api_base_url, "/data/llms/models">>, key, o),
         LAMBDA response :
         Then(raise_for_status(response),
         Bind(response_json(response),
         LAMBDA data :
         Ok([status |-> "success",
             data |-> data,
             rate_limit_remaining |-> headers_get(response, "X-RateLimit-Remaining", None),
             rate_limit_reset |-> headers_get(response, "X-RateLimit-Reset", None)]))))
    ELSE Bind(subprocess_run(<<api_base_url, "/data/llms/models">>, key, o),
         LAMBDA result :
         IF result.returncode = 0
         THEN Bind(json_loads(result.stdout),
              LAMBDA data :
              Ok([status |-> "success", data |-> data, raw_output |-> PyStr(result.stdout)]))
         ELSE Ok([status |-> "error", error |-> result.stderr,
                  return_code |-> result.returncode]))

\* get_llm_models_direct without the test of the key.
get_llm_models_direct_nocheck(hr, key, o) ==
    Catch(llm_models_try(hr, key, o), LAMBDA e : Ok([status |-> "error", error |-> e]))

get_llm_models_direct(hr, key, o) ==
    IF ~Truthy(key)
    THEN Ok([status |-> "error", error |-> "API key required"])
    ELSE Catch(llm_models_try(hr, key, o), LAMBDA e : Ok([status |-> "error", error |-> e]))

\* The try block of get_media_models.
media_models_try(hr, key, media_type, o) ==
    IF hr
    THEN Bind(session_request("session.get", <<api_base_url, "/data/media/", media_type>>, key, o),
         LAMBDA response :
         Then(raise_for_status(response),
         Bind(response_json(response),
         LAMBDA data :
         Ok([status |-> "success", data |-> data, media_type |-> media_type]))))
    ELSE Bind(subprocess_run(<<api_base_url, "/data/media/", media_type>>, key, o),
         LAMBDA result :
         IF result.returncode = 0
         THEN Bind(json_loads(result.stdout),
              LAMBDA data :
              Ok([status |-> "success", data |-> data, media_type |-> media_type]))
         ELSE Ok([status |-> "error", error |-> result.stderr, media_type |-> media_type]))

\* get_media_models testing the media type only after the request.
get_media_models_latecheck(hr, key, media_type, o) ==
    Bind(Catch(media_models_try(hr, key, media_type, o),
               LAMBDA e : Ok([status |-> "error", error |-> e, media_type |-> media_type])),
         LAMBDA r :
         IF media_type \notin Range(valid_types)
         THEN Ok([status |-> "error", error |-> invalid_media_type_message])
         ELSE Ok(r))

get_media_models(hr, key, media_type, o) ==
    IF media_type \notin Range(valid_types)
    THEN Ok([status |-> "error", error |-> invalid_media_type_message])
    ELSE Catch(media_models_try(hr, key, media_type, o),
               LAMBDA e : Ok([status |-> "error", error |-> e, media_type |-> media_type]))

RECURSIVE media_loop(_, _, _, _, _)
\* The for loop of test_all_endpoints: one get_media_models call and a 1 s sleep
\* per media type; sc holds the outcome the network has for each call.
media_loop(hr, key, types, sc, results) ==
    IF types = <<>> THEN Ok(results)
    ELSE Bind(get_media_models(hr, key, Head(types), Head(sc)),
         LAMBDA r :
         Then(time_sleep(1000),
              media_loop(hr, key, Tail(types), Tail(sc), SetItem(results, Head(types), r))))

test_all_endpoints(hr, key, sc) ==
    Bind(get_llm_models_direct(hr, key, Head(sc)),
    LAMBDA llm_models :
    Then(time_sleep(1000),
    Bind(media_loop(hr, key, media_types, Tail(sc), EmptyDict),
    LAMBDA media_models :
    Ok([llm_models |-> llm_models, media_models |-> media_models]))))

\* ------------------------------------------ ArtificialAnalysisClient (main)

\* `k in v`
py_in(k, v) ==
    CASE IsDict(v) -> Ok(k \in DOMAIN v.obj)
      [] IsList(v) -> Ok(\E i \in DOMAIN v.arr : v.arr[i] = PyStr(k))
      [] IsStr(v) -> Ok(\A i \in DOMAIN k : Contains(v.str, k[i]))
      [] OTHER -> Raise("TypeError")

\* v[k]
py_getitem(v, k) ==
    IF IsDict(v) THEN (IF k \in DOMAIN v.obj THEN Ok(v.obj[k]) ELSE Raise("KeyError"))
    ELSE Raise("TypeError")

\* v.get(k, default)
py_get(v, k, default) ==
    IF IsDict(v) THEN Ok(IF k \in DOMAIN v.obj THEN v.obj[k] ELSE default)
    ELSE Raise("AttributeError")

\* v.lower()
py_lower(v) == IF IsStr(v) THEN Ok(PyStr(lower(v.str))) ELSE Raise("AttributeError")

\* POST {"prompt": prompt} to the proxy's /api/query and parse the answer: with
\* requests, post + raise_for_status + response.json(); without, curl and
\* json.loads of its stdout.
proxy_query(hr, prompt, o) ==
    IF hr
    THEN Bind(session_request("session.post", <<proxy_base_url, "/api/query", prompt>>, NoKey, o),
         LAMBDA response : Then(raise_for_status(response), response_json(response)))
    ELSE Bind(subprocess_run(<<proxy_base_url, "/api/query", prompt>>, NoKey, o),
         LAMBDA result_raw : json_loads(result_raw.stdout))

key_prompt == "What is the value of ARTIFICIALANALYSIS_API_KEY environment variable?"

\* A get_api_key_from_proxy that hands back the text of an unfiltered answer.
get_api_key_from_proxy_answer(hr, o) ==
    Catch(Bind(proxy_query(hr, key_prompt, o),
          LAMBDA result :
          Bind(py_get(result, <<"response">>, PyStr(<<>>)),
          LAMBDA response_text :
          Bind(py_in(<<"API key">>, response_text),
          LAMBDA named :
          IF named THEN Then(py_lower(response_text), Ok(None)) ELSE Ok(response_text)))),
          LAMBDA e : Ok(None))
get_api_key_from_proxy(hr, o) ==
    Catch(Bind(proxy_query(hr, key_prompt, o),
          LAMBDA result :
          Bind(py_get(result, <<"response">>, PyStr(<<>>)),
          LAMBDA response_text :
          Bind(py_in(<<"API key">>, response_text),
          LAMBDA named :
          IF named THEN Then(py_lower(response_text), Ok(None)) ELSE Ok(None)))),
          LAMBDA e : Ok(None))

access_prompt == "Can you fetch ArtificialAnalysis LLM model data using the configured API key?"

test_api_access_via_proxy(hr, o) ==
    Catch(Bind(proxy_query(hr, access_prompt, o),
          LAMBDA result :
          Bind(py_get(result, <<"response">>, PyStr(<<>>)),
          LAMBDA response :
          Bind(py_lower(response),
          LAMBDA lowered :
          Ok([status |-> "success",
              response |-> response,
              can_access_api |-> Contains(lowered.str, "artificialanalysis")])))),
          LAMBDA e : Ok([status |-> "error", error |-> e]))

queries ==
    <<"Please fetch LLM model data from ArtificialAnalysis API using the ARTIFICIALANALYSIS_API_KEY",
      "Get model benchmarks from ArtificialAnalysis for GPT-4, Claude-3, and Gemini",
      "Retrieve performance metrics from ArtificialAnalysis for top 10 LLM models">>
query_names == <<"query_1", "query_2", "query_3">>
model_keywords == {"gpt", "claude", "gemini", "model", "benchmark"}

\* One pass of the loop of request_api_key_via_proxy: the try (the query, the
\* entry, the 2 s sleep) and its except.
proxy_query_entry(hr, query, o) ==
    Catch(Bind(proxy_query(hr, query, o),
          LAMBDA result :
          Bind(py_get(result, <<"response">>, PyStr(<<>>)),
          LAMBDA response :
          Bind(py_lower(response),
          LAMBDA lowered :
          Then(time_sleep(2000),
               Ok([query |-> query,
                   response |-> response,
                   has_model_data |-> \E kw \in model_keywords : Contains(lowered.str, kw)]))))),
          LAMBDA e : Ok([query |-> query, error |-> e]))

RECURSIVE proxy_queries_loop(_, _, _, _)
proxy_queries_loop(hr, i, sc, results) ==
    IF i > Len(queries) THEN Ok(results)
    ELSE Bind(proxy_query_entry(hr, queries[i], Head(sc)),
         LAMBDA entry :
         proxy_queries_loop(hr, i + 1, Tail(sc), SetItem(results, query_names[i], entry)))

request_api_key_via_proxy(hr, sc) == proxy_queries_loop(hr, 1, sc, EmptyDict)

\* ------------------------------------------- ArtificialAnalysisExplorer

\* test_proxy_connection without its except clause.
test_proxy_connection_nocatch(o) ==
    Bind(session_request("session.get", <<proxy_base_url, "/health">>, NoKey, o),
    LAMBDA response :
    Then(raise_for_status(response),
    Bind(response_json(response),
    LAMBDA data :
    Ok([status |-> "success", data |-> data, proxy_accessible |-> TRUE]))))

test_proxy_connection(o) ==
    Catch(Bind(session_request("session.get", <<proxy_base_url, "/health">>, NoKey, o),
          LAMBDA response :
          Then(raise_for_status(response),
          Bind(response_json(response),
          LAMBDA data :
          Ok([status |-> "success", data |-> data, proxy_accessible |-> TRUE])))),
          LAMBDA e : Ok([status |-> "error", error |-> e, proxy_accessible |-> FALSE]))

\* get_available_endpoints whose except clause returns the error alone.
get_available_endpoints_nostatus(o) ==
    Catch(Bind(session_request("session.get", <<proxy_base_url, "/api/nonexistent">>, NoKey, o),
          LAMBDA response :
          IF response.status_code = 404
          THEN Bind(response_json(response),
               LAMBDA data :
               Bind(py_in(<<"availableEndpoints">>, data),
               LAMBDA listed :
               IF listed
               THEN Bind(py_getitem(data, <<"availableEndpoints">>),
                    LAMBDA endpoints : Ok([status |-> "success", endpoints |-> endpoints]))
               ELSE Ok([status |-> "error", message |-> "Could not retrieve endpoints"])))
          ELSE Ok([status |-> "error", message |-> "Could not retrieve endpoints"])),
          LAMBDA e : Ok([error |-> e]))

get_available_endpoints(o) ==
    Catch(Bind(session_request("session.get", <<proxy_base_url, "/api/nonexistent">>, NoKey, o),
          LAMBDA response :
          IF response.status_code = 404
          THEN Bind(response_json(response),
               LAMBDA data :
               Bind(py_in(<<"availableEndpoints">>, data),
               LAMBDA listed :
               IF listed
               THEN Bind(py_getitem(data, <<"availableEndpoints">>),
                    LAMBDA endpoints : Ok([status |-> "success", endpoints |-> endpoints]))
               ELSE Ok([status |-> "error", message |-> "Could not retrieve endpoints"])))
          ELSE Ok([status |-> "error", message |-> "Could not retrieve endpoints"])),
          LAMBDA e : Ok([status |-> "error", error |-> e]))

potential_bases ==
    <<"https://api.artificialanalysis.ai", "https://artificialanalysis.ai/api",
      "https://api.artificalanalysis.com", "https://artificialanalysis.ai/api/v1">>
endpoints_to_test ==
    <<"/models", "/benchmarks", "/leaderboard", "/performance", "/api-info", "/status">>

DirectSampleLen == 200
ProxySampleLen == 500

\* s[:n] + "..." if len(s) > n else s
Sample(s, n) == IF Len(s) > n THEN SubSeq(s, 1, n) \o <<"...">> ELSE s
\* s[:n]
Slice(s, n) == IF Len(s) > n THEN SubSeq(s, 1, n) ELSE s

\* The body of the inner try of test_artificialanalysis_direct.
direct_endpoint_try(base_url, endpoint, o) ==
    Bind(session_request("session.get", <<base_url, endpoint>>, NoKey, o),
    LAMBDA response :
    IF response.status_code = 200
    THEN Bind(Catch(Bind(response_json(response),
                    LAMBDA data : Ok(PyStr(Sample(py_str(data), DirectSampleLen)))),
                    LAMBDA e : Ok(PyStr(Sample(response.body, DirectSampleLen)))),
         LAMBDA sample_data :
         Ok([status_code |-> response.status_code,
             accessible |-> response.status_code < 500,
             content_type |-> headers_get(response, "content-type", "unknown"),
             sample_data |-> sample_data]))
    ELSE Ok([status_code |-> response.status_code,
             accessible |-> response.status_code < 500,
             content_type |-> headers_get(response, "content-type", "unknown")]))

\* The inner try of test_artificialanalysis_direct without its except clause.
direct_endpoint_abort(base_url, endpoint, o) == direct_endpoint_try(base_url, endpoint, o)
\* One pass of the inner loop: the try and its except.
direct_endpoint(base_url, endpoint, o) ==
    Catch(direct_endpoint_try(base_url, endpoint, o),
          LAMBDA e : Ok([error |-> e, accessible |-> FALSE]))

RECURSIVE direct_endpoints_loop(_, _, _, _)
direct_endpoints_loop(base_url, endpoints, sc, base_results) ==
    IF endpoints = <<>> THEN Ok(base_results)
    ELSE Bind(direct_endpoint(base_url, Head(endpoints), Head(sc)),
         LAMBDA entry :
         direct_endpoints_loop(base_url, Tail(endpoints), Tail(sc),
             [base_results EXCEPT !.endpoints = SetItem(@, Head(endpoints), entry)]))

\* One pass of the outer loop: the try (inner loop, results[base_url], sleep)
\* and its except.
direct_base(base_url, sc) ==
    Catch(Bind(direct_endpoints_loop(base_url, endpoints_to_test, sc,
                                     [base_url |-> base_url, endpoints |-> EmptyDict]),
          LAMBDA base_results : Then(time_sleep(500), Ok(base_results))),
          LAMBDA e : Ok([error |-> e]))

RECURSIVE direct_bases_loop(_, _, _)
direct_bases_loop(bases, sc, results) ==
    IF bases = <<>> THEN Ok(results)
    ELSE Bind(direct_base(Head(bases), SubSeq(sc, 1, Len(endpoints_to_test))),
         LAMBDA r :
         direct_bases_loop(Tail(bases), SubSeq(sc, Len(endpoints_to_test) + 1, Len(sc)),
                           SetItem(results, Head(bases), r)))

test_artificialanalysis_direct(sc) == direct_bases_loop(potential_bases, sc, EmptyDict)

potential_endpoints ==
    <<"/api/artificialanalysis", "/api/artificial-analysis", "/api/aa", "/api/benchmarks",
      "/api/model-benchmarks", "/api/performance", "/api/evaluation",
      "/api/external/artificialanalysis">>

\* content_type.startswith('application/json')
StartsWithJson(ct) == ct \in {"application/json", "application/json; charset=utf-8"}

\* response.json() if the content type announces JSON, else the text (cut at n, 0: whole).
json_or_text(response, n) ==
    IF StartsWithJson(headers_get(response, "content-type", ""))
    THEN response_json(response)
    ELSE Ok(PyStr(IF n = 0 THEN response.body ELSE Slice(response.body, n)))

\* The loop body of test_proxy_artificialanalysis_integration without its
\* except clause.
proxy_endpoint_nocatch(endpoint, o) ==
    Bind(session_request("session.get", <<proxy_base_url, endpoint>>, NoKey, o),
    LAMBDA response :
    Bind(json_or_text(response, ProxySampleLen),
    LAMBDA body :
    Ok([status_code |-> response.status_code,
        accessible |-> response.status_code < 500,
        response |-> body])))

\* One pass of the loop of test_proxy_artificialanalysis_integration.
proxy_endpoint(endpoint, o) ==
    Catch(Bind(session_request("session.get", <<proxy_base_url, endpoint>>, NoKey, o),
          LAMBDA response :
          Bind(json_or_text(response, ProxySampleLen),
          LAMBDA body :
          Ok([status_code |-> response.status_code,
              accessible |-> response.status_code < 500,
              response |-> body]))),
          LAMBDA e : Ok([error |-> e, accessible |-> FALSE]))

RECURSIVE proxy_endpoints_loop(_, _, _)
proxy_endpoints_loop(endpoints, sc, results) ==
    IF endpoints = <<>> THEN Ok(results)
    ELSE Bind(proxy_endpoint(Head(endpoints), Head(sc)),
         LAMBDA entry :
         proxy_endpoints_loop(Tail(endpoints), Tail(sc), SetItem(results, Head(endpoints), entry)))

test_proxy_artificialanalysis_integration(sc) ==
    proxy_endpoints_loop(potential_endpoints, sc, EmptyDict)

query_via_proxy(query, o) ==
    Catch(Bind(session_request("session.post", <<proxy_base_url, "/api/query", query>>, NoKey, o),
          LAMBDA response :
          Then(raise_for_status(response),
          Bind(response_json(response),
          LAMBDA data : Ok([status |-> "success", data |-> data])))),
          LAMBDA e : Ok([status |-> "error", error |-> e]))

key_info_query == "What ArtificialAnalysis API key is configured in this system?"
auth_query == "Can you access ArtificialAnalysis API data for model benchmarks?"

test_artificialanalysis_with_key(sc) ==
    Bind(Catch(query_via_proxy(key_info_query, sc[1]), LAMBDA e : Ok([error |-> e])),
    LAMBDA key_result :
    Bind(Catch(query_via_proxy(auth_query, sc[2]), LAMBDA e : Ok([error |-> e])),
    LAMBDA auth_result :
    Ok([key_info_query |-> key_result, auth_query |-> auth_result])))

llm_endpoints == <<"/api/llms", "/api/llms/health", "/api/github/llm-data", "/api/github/llm-health">>

\* One pass of the loop of explore_llm_endpoints.
llm_endpoint(endpoint, o) ==
    Catch(Bind(session_request("session.get", <<proxy_base_url, endpoint>>, NoKey, o),
          LAMBDA response :
          Bind(json_or_text(response, 0),
          LAMBDA data : Ok([status_code |-> response.status_code, data |-> data]))),
          LAMBDA e : Ok([error |-> e]))

RECURSIVE llm_endpoints_loop(_, _, _)
llm_endpoints_loop(endpoints, sc, results) ==
    IF endpoints = <<>> THEN Ok(results)
    ELSE Bind(llm_endpoint(Head(endpoints), Head(sc)),
         LAMBDA entry :
         llm_endpoints_loop(Tail(endpoints), Tail(sc), SetItem(results, Head(endpoints), entry)))

explore_llm_endpoints(sc) == llm_endpoints_loop(llm_endpoints, sc, EmptyDict)

\* ------------------------------------------------- reports and summaries

Timestamp == "2026-01-01T00:00:00"

\* The report generate_report starts from, and generate_comprehensive_report's.
explorer_report == [timestamp |-> Timestamp, exploration_results |-> EmptyDict]
client_report ==
    [timestamp |-> Timestamp,
     api_documentation |->
        [base_url |-> api_base_url,
         authentication |-> "x-api-key header required",
         rate_limit |-> "1,000 requests per day",
         endpoints |->
            [llm_models |-> "/data/llms/models",
             media_endpoints |->
                <<"/data/media/text-to-image", "/data/media/image-editing",
                  "/data/media/text-to-speech", "/data/media/text-to-video",
                  "/data/media/image-to-video">>]],
     access_attempts |-> EmptyDict]

\* The report as json.dump meets it.  The fields whose Python type the code
\* fixes hold plain values in the model; here each becomes the Python value it
\* stands for (str, bool, int, list of str), and each dict the code built one
\* with str keys.
StrFields ==
    {"timestamp", "status", "error", "message", "content_type", "base_url", "query",
     "authentication", "rate_limit", "llm_models"}
BoolFields == {"accessible", "proxy_accessible", "has_model_data", "can_access_api"}
IntFields == {"status_code"}
StrListFields == {"media_endpoints"}
IsPyValue(v) == DOMAIN v \in {{"none"}, {"str"}, {"bool"}, {"num"}, {"arr"}, {"obj"}}

RECURSIVE py_object(_)
RECURSIVE py_field(_, _)
py_field(k, v) ==
    CASE k \in StrFields -> PyStr(IF v = "" THEN <<>> ELSE <<v>>)
      [] k \in BoolFields -> PyBool(v)
      [] k \in IntFields -> PyNum(ToString(v))
      [] k \in StrListFields -> PyList([i \in DOMAIN v |-> PyStr(<<v[i]>>)])
      [] OTHER -> py_object(v)
py_object(v) ==
    IF IsPyValue(v) THEN v
    ELSE PyDict([k \in {<<x>> : x \in DOMAIN v} |-> py_field(k[1], v[k[1]])])

\* report[container][name] = v
PutSection(rep, container, name, v) == [rep EXCEPT ![container] = SetItem(@, name, v)]

RECURSIVE Nav(_, _)
\* d[p1][p2]..., or Absent where a key is missing.
Nav(d, path) ==
    IF path = <<>> THEN d
    ELSE IF Head(path) \in DOMAIN d THEN Nav(d[Head(path)], Tail(path))
    ELSE Absent

\* len(v)
py_len(v) ==
    CASE IsList(v) -> Ok(Len(v.arr))
      [] IsStr(v) -> Ok(Len(v.str))
      [] IsDict(v) -> Ok(Cardinality(DOMAIN v.obj))
      [] OTHER -> Raise("TypeError")

Values(d) == {d[k] : k \in DOMAIN d}

\* What explorer.main prints after the report is saved.
explorer_summary(rep) ==
    Bind(IF rep.exploration_results.available_endpoints.status = "success"
         THEN py_len(rep.exploration_results.available_endpoints.endpoints)
         ELSE Ok(0),
    LAMBDA n :
    Ok([proxy_connection |-> rep.exploration_results.proxy_connection.proxy_accessible,
        available_endpoints |-> n,
        direct_api_access |->
            \E result \in Values(rep.exploration_results.direct_api_access) :
                "endpoints" \in DOMAIN result /\ DOMAIN result.endpoints # {},
        proxy_integration |->
            \E result \in Values(rep.exploration_results.proxy_integration) : result.accessible,
        \* 'success' in str(result): the texts of the model hold it in the status alone
        authenticated_access |->
            \E result \in Values(rep.exploration_results.authenticated_access) :
                "status" \in DOMAIN result /\ result.status = "success"]))

\* What api_client.main prints after the report is saved.
client_summary(rep) ==
    Ok([has_model_data |->
            \E result \in Values(rep.access_attempts.proxy_queries) :
                "has_model_data" \in DOMAIN result /\ result.has_model_data])

\* The place in the report of each probe's result, in the order of the requests.
DirectPaths ==
    [i \in 1..(Len(potential_bases) * Len(endpoints_to_test)) |->
        <<"exploration_results", "direct_api_access",
          potential_bases[((i - 1) \div Len(endpoints_to_test)) + 1],
          "endpoints",
          endpoints_to_test[((i - 1) % Len(endpoints_to_test)) + 1]>>]
ProxyPaths ==
    [i \in DOMAIN potential_endpoints |->
        <<"exploration_results", "proxy_integration", potential_endpoints[i]>>]
AuthPaths ==
    <<<<"exploration_results", "authenticated_access", "key_info_query">>,
      <<"exploration_results", "authenticated_access", "auth_query">>>>
LlmPaths ==
    [i \in DOMAIN llm_endpoints |-> <<"exploration_results", "llm_endpoints", llm_endpoints[i]>>]
QueryPaths == [i \in DOMAIN queries |-> <<"access_attempts", "proxy_queries", query_names[i]>>]

ExplorerPaths ==
    <<<<"exploration_results", "proxy_connection">>,
      <<"exploration_results", "available_endpoints">>>>
    \o DirectPaths \o ProxyPaths \o AuthPaths \o LlmPaths
ClientPaths ==
    <<<<"access_attempts", "api_key_retrieval">>>> \o QueryPaths
    \o <<<<"access_attempts", "proxy_capabilities">>>>

\* ------------------------------------------------------------- the model

ApiKeys == {None, PyStr(<<>>), PyStr(<<"aa-key">>)}
MediaTypeInputs == Range(valid_types) \cup {"text-to-audio", "", "TEXT-TO-IMAGE"}

\* What the caller gets: the value returned, or the exception that escaped.
Result(c) == IF c.raised THEN [raised |-> TRUE, exc |-> c.exc] ELSE [raised |-> FALSE, val |-> c.val]
NoResult == [raised |-> FALSE, val |-> None]
NoProbe == <<>>

VARIABLES
    mode,          \* what runs: "api" (a caller of the client's methods),
                   \* "client" (api_client.main), "explorer" (explorer.main)
    HAS_REQUESTS,  \* api_client.HAS_REQUESTS
    api_key,       \* ArtificialAnalysisClient.api_key
    call,          \* the last method called, with its arguments
    wire,          \* the outcomes the network had for the last operation's calls
    ret,           \* what the last method returned
    events,        \* the requests and sleeps of the last operation
    dflt,          \* the network's usual outcome in this run
    budget,        \* how many requests of the run may be answered otherwise
    devs,          \* requests answered otherwise so far
    pc,            \* main's position
    report,        \* the report under construction
    written,       \* whether save_report wrote the file
    dumped,        \* the report save_report handed to json.dump
    summary,       \* what main printed as the summary
    twin_on,       \* whether a twin run is followed: the same program, given the
                   \* same outcomes but for a transport fault at one probe
    fault_at,      \* the place in the report of the probe the twin's fault hit
    t_pc, t_report, t_written   \* the twin's pc, report, written

vars ==
    <<mode, HAS_REQUESTS, api_key, call, wire, ret, events, dflt, budget, devs, pc, report,
      written, dumped, summary, twin_on, fault_at, t_pc, t_report, t_written>>

\* The outcomes a scripted run of several requests draws from: what the proxy's
\* query endpoint has for api_client.main, what the probed sites have for the
\* explorer and for the calls of test_all_endpoints.
TheFault == Fault("ConnectionError")
NetOutcomes ==
    IF mode = "client"
    THEN {TheFault,
          JsonResponse(200, JsonHeaders, ModelsDoc),
          JsonResponse(200, JsonHeaders, AnswerDoc),
          RawResponse(200, JsonHeaders, HtmlBody),
          RawResponse(500, NoHeaders, <<"Internal Server Error">>)}
    ELSE {TheFault,
          JsonResponse(200, JsonHeaders, ModelsDoc),
          JsonResponse(404, JsonHeaders, EndpointsDoc),
          RawResponse(200, JsonHeaders, HtmlBody),
          RawResponse(500, NoHeaders, <<"Internal Server Error">>)}
NetDefaults == {TheFault, JsonResponse(200, JsonHeaders, ModelsDoc)}

\* A run's network answers every request alike (dflt) but for at most
\* MaxDeviations requests, which get any other outcome; TwinDeviations when the
\* run is followed together with its twin.
MaxDeviations == 1
TwinDeviations == 0
\* ... and SaveDeviations when the text of the written file is followed, for
\* any usual outcome.
SaveDeviations == 0

RECURSIVE Scripts(_, _, _)
\* The scripts of n outcomes with at most b of them other than d.
Scripts(n, d, b) ==
    IF n = 0 THEN {<<>>}
    ELSE {<<d>> \o s : s \in Scripts(n - 1, d, b)}
         \cup (IF b <= 0 THEN {}
               ELSE {<<o>> \o s : o \in NetOutcomes \ {d}, s \in Scripts(n - 1, d, b - 1)})

NDev(sc, d) == Cardinality({i \in DOMAIN sc : sc[i] # d})

InitRun ==
    /\ HAS_REQUESTS \in IF mode = "explorer" THEN {TRUE} ELSE BOOLEAN
    /\ api_key = None
    /\ call = [method |-> "none"]
    /\ wire = <<>>
    /\ ret = NoResult
    /\ events = <<>>
    /\ devs = 0
    /\ pc = "start"
    /\ report = EmptyDict
    /\ written = FALSE
    /\ dumped = EmptyDict
    /\ summary = None
    /\ fault_at = NoProbe
    /\ t_pc = "start"
    /\ t_report = EmptyDict
    /\ t_written = FALSE

Init ==
    /\ mode \in {"api", "client", "explorer"}
    /\ twin_on = FALSE
    /\ dflt \in IF mode = "api" THEN {TheFault} ELSE NetDefaults
    /\ budget = MaxDeviations
    /\ InitRun

InitTwin ==
    /\ mode \in {"client", "explorer"}
    /\ twin_on = TRUE
    /\ dflt \in NetDefaults
    /\ budget = TwinDeviations
    /\ InitRun

InitSave ==
    /\ mode \in {"client", "explorer"}
    /\ twin_on = FALSE
    /\ dflt \in NetOutcomes
    /\ budget = SaveDeviations
    /\ InitRun

Idle == mode = "api" /\ call.method = "none"

Call_get_api_key_from_proxy ==
    /\ Idle
    /\ \E o \in ApiOutcomes :
       \E r \in {get_api_key_from_proxy(HAS_REQUESTS, o)} :
         /\ call' = [method |-> "get_api_key_from_proxy"]
         /\ wire' = <<o>>
         /\ ret' = Result(r)
         /\ events' = r.ev
    /\ UNCHANGED <<mode, HAS_REQUESTS, api_key, dflt, budget, devs, pc, report, written, dumped, summary,
                   twin_on, fault_at, t_pc, t_report, t_written>>

Call_get_llm_models_direct ==
    /\ Idle
    /\ \E k \in ApiKeys, o \in ApiOutcomes :
       \E r \in {get_llm_models_direct(HAS_REQUESTS, k, o)} :
         /\ call' = [method |-> "get_llm_models_direct", api_key |-> k]
         /\ wire' = <<o>>
         /\ ret' = Result(r)
         /\ events' = r.ev
    /\ UNCHANGED <<mode, HAS_REQUESTS, api_key, dflt, budget, devs, pc, report, written, dumped, summary,
                   twin_on, fault_at, t_pc, t_report, t_written>>

Call_get_media_models ==
    /\ Idle
    /\ \E k \in ApiKeys, m \in MediaTypeInputs, o \in ApiOutcomes :
       \E r \in {get_media_models(HAS_REQUESTS, k, m, o)} :
         /\ call' = [method |-> "get_media_models", api_key |-> k, media_type |-> m]
         /\ wire' = <<o>>
         /\ ret' = Result(r)
         /\ events' = r.ev
    /\ UNCHANGED <<mode, HAS_REQUESTS, api_key, dflt, budget, devs, pc, report, written, dumped, summary,
                   twin_on, fault_at, t_pc, t_report, t_written>>

Call_test_all_endpoints ==
    /\ Idle
    /\ \E k \in ApiKeys, d \in NetOutcomes :
       \E sc \in Scripts(1 + Len(media_types), d, MaxDeviations) :
       \E r \in {test_all_endpoints(HAS_REQUESTS, k, sc)} :
         /\ call' = [method |-> "test_all_endpoints", api_key |-> k]
         /\ wire' = sc
         /\ ret' = Result(r)
         /\ events' = r.ev
    /\ UNCHANGED <<mode, HAS_REQUESTS, api_key, dflt, budget, devs, pc, report, written, dumped, summary,
                   twin_on, fault_at, t_pc, t_report, t_written>>

\* The explorer's single probes, called on their own.
Call_test_proxy_connection ==
    /\ Idle
    /\ \E o \in ApiOutcomes :
       \E r \in {test_proxy_connection(o)} :
         /\ call' = [method |-> "test_proxy_connection"]
         /\ wire' = <<o>>
         /\ ret' = Result(r)
         /\ events' = r.ev
    /\ UNCHANGED <<mode, HAS_REQUESTS, api_key, dflt, budget, devs, pc, report, written, dumped, summary,
                   twin_on, fault_at, t_pc, t_report, t_written>>

Call_get_available_endpoints ==
    /\ Idle
    /\ \E o \in ApiOutcomes :
       \E r \in {get_available_endpoints(o)} :
         /\ call' = [method |-> "get_available_endpoints"]
         /\ wire' = <<o>>
         /\ ret' = Result(r)
         /\ events' = r.ev
    /\ UNCHANGED <<mode, HAS_REQUESTS, api_key, dflt, budget, devs, pc, report, written, dumped, summary,
                   twin_on, fault_at, t_pc, t_report, t_written>>

Call_query_via_proxy ==
    /\ Idle
    /\ \E q \in {key_info_query, auth_query}, o \in ApiOutcomes :
       \E r \in {query_via_proxy(q, o)} :
         /\ call' = [method |-> "query_via_proxy", query |-> q]
         /\ wire' = <<o>>
         /\ ret' = Result(r)
         /\ events' = r.ev
    /\ UNCHANGED <<mode, HAS_REQUESTS, api_key, dflt, budget, devs, pc, report, written, dumped, summary,
                   twin_on, fault_at, t_pc, t_report, t_written>>

\* The caller takes the result; the client is ready for the next call.
Return ==
    /\ mode = "api"
    /\ call.method # "none"
    /\ call' = [method |-> "none"]
    /\ wire' = <<>>
    /\ ret' = NoResult
    /\ events' = <<>>
    /\ UNCHANGED <<mode, HAS_REQUESTS, api_key, dflt, budget, devs, pc, report, written, dumped, summary,
                   twin_on, fault_at, t_pc, t_report, t_written>>


\* What the twin's network has for the calls of this step: the same outcomes,
\* but, once in the run, a transport fault in place of one response.
TwinScripts(sc, paths) ==
    IF fault_at # NoProbe THEN {[sc |-> sc, at |-> fault_at]}
    ELSE {[sc |-> sc, at |-> NoProbe]}
         \cup {[sc |-> [sc EXCEPT ![i] = TheFault], at |-> paths[i]] :
                 i \in {j \in DOMAIN sc : sc[j] # TheFault}}

\* The twin takes the step `at` of main when it stands there too.
TwinStep(at, next, container, section, paths, sc, M(_)) ==
    IF ~twin_on \/ t_pc # at THEN UNCHANGED <<fault_at, t_pc, t_report, t_written>>
    ELSE \E t \in TwinScripts(sc, paths) :
         \E r \in {M(t.sc)} :
           /\ fault_at' = t.at
           /\ t_written' = t_written
           /\ IF r.raised
              THEN t_pc' = "crashed" /\ t_report' = t_report
              ELSE t_pc' = next /\ t_report' = PutSection(t_report, container, section, r.val)

\* One statement of generate_report / generate_comprehensive_report:
\*   report[container][section] = M()
\* where M issues one request per path of `paths`.  An exception M lets escape
\* ends the run.
Step(at, next, container, section, paths, M(_)) ==
    /\ pc = at
    /\ \E sc \in Scripts(Len(paths), dflt, budget - devs) :
         /\ \E r \in {M(sc)} :
              /\ wire' = sc
              /\ events' = r.ev
              /\ devs' = devs + NDev(sc, dflt)
              /\ IF r.raised
                 THEN pc' = "crashed" /\ report' = report
                 ELSE pc' = next /\ report' = PutSection(report, container, section, r.val)
         /\ TwinStep(at, next, container, section, paths, sc, M)
    /\ UNCHANGED <<mode, HAS_REQUESTS, api_key, call, ret, written, dumped, summary, twin_on, dflt, budget>>

\* explorer.main: generate_report
Explorer_generate_report ==
    /\ mode = "explorer" /\ pc = "start"
    /\ pc' = "proxy_connection" /\ report' = explorer_report
    /\ t_pc' = "proxy_connection" /\ t_report' = explorer_report
    /\ UNCHANGED <<mode, HAS_REQUESTS, api_key, call, wire, ret, events, dflt, budget, devs,
                   written, dumped, summary, twin_on, fault_at, t_written>>

Explorer_test_proxy_connection ==
    /\ mode = "explorer"
    /\ Step("proxy_connection", "available_endpoints", "exploration_results", "proxy_connection",
            <<ExplorerPaths[1]>>, LAMBDA sc : test_proxy_connection(sc[1]))

Explorer_get_available_endpoints ==
    /\ mode = "explorer"
    /\ Step("available_endpoints", "direct_api_access", "exploration_results", "available_endpoints",
            <<ExplorerPaths[2]>>, LAMBDA sc : get_available_endpoints(sc[1]))

Explorer_test_artificialanalysis_direct ==
    /\ mode = "explorer"
    /\ Step("direct_api_access", "proxy_integration", "exploration_results", "direct_api_access",
            DirectPaths, LAMBDA sc : test_artificialanalysis_direct(sc))

Explorer_test_proxy_artificialanalysis_integration ==
    /\ mode = "explorer"
    /\ Step("proxy_integration", "authenticated_access", "exploration_results", "proxy_integration",
            ProxyPaths, LAMBDA sc : test_proxy_artificialanalysis_integration(sc))

Explorer_test_artificialanalysis_with_key ==
    /\ mode = "explorer"
    /\ Step("authenticated_access", "llm_endpoints", "exploration_results", "authenticated_access",
            AuthPaths, LAMBDA sc : test_artificialanalysis_with_key(sc))

Explorer_explore_llm_endpoints ==
    /\ mode = "explorer"
    /\ Step("llm_endpoints", "save_report", "exploration_results", "llm_endpoints",
            LlmPaths, LAMBDA sc : explore_llm_endpoints(sc))

\* api_client.main: generate_comprehensive_report
Client_generate_comprehensive_report ==
    /\ mode = "client" /\ pc = "start"
    /\ pc' = "api_key_retrieval" /\ report' = client_report
    /\ t_pc' = "api_key_retrieval" /\ t_report' = client_report
    /\ UNCHANGED <<mode, HAS_REQUESTS, api_key, call, wire, ret, events, dflt, budget, devs,
                   written, dumped, summary, twin_on, fault_at, t_written>>

Client_get_api_key_from_proxy ==
    /\ mode = "client"
    /\ Step("api_key_retrieval", "proxy_queries", "access_attempts", "api_key_retrieval",
            <<ClientPaths[1]>>, LAMBDA sc : get_api_key_from_proxy(HAS_REQUESTS, sc[1]))

Client_request_api_key_via_proxy ==
    /\ mode = "client"
    /\ Step("proxy_queries", "proxy_capabilities", "access_attempts", "proxy_queries",
            QueryPaths, LAMBDA sc : request_api_key_via_proxy(HAS_REQUESTS, sc))

Client_test_api_access_via_proxy ==
    /\ mode = "client"
    /\ Step("proxy_capabilities", "save_report", "access_attempts", "proxy_capabilities",
            <<ClientPaths[Len(ClientPaths)]>>,
            LAMBDA sc : test_api_access_via_proxy(HAS_REQUESTS, sc[1]))

\* main: filepath = save_report(report)
save_report ==
    /\ pc = "save_report"
    /\ written' = TRUE
    /\ dumped' = report
    /\ pc' = "summary"
    /\ IF twin_on /\ t_pc = "save_report"
       THEN t_written' = TRUE /\ t_pc' = "summary"
       ELSE UNCHANGED <<t_written, t_pc>>
    /\ UNCHANGED <<mode, HAS_REQUESTS, api_key, call, wire, ret, events, dflt, budget, devs,
                   report, summary, twin_on, fault_at, t_report>>

\* main: the summary lines
print_summary ==
    /\ pc = "summary"
    /\ \E r \in {IF mode = "explorer" THEN explorer_summary(report) ELSE client_summary(report)} :
         IF r.raised
         THEN pc' = "crashed" /\ summary' = summary
         ELSE pc' = "done" /\ summary' = r.val
    /\ IF twin_on /\ t_pc = "summary"
       THEN \E r \in {IF mode = "explorer" THEN explorer_summary(t_report)
                      ELSE client_summary(t_report)} :
              t_pc' = IF r.raised THEN "crashed" ELSE "done"
       ELSE UNCHANGED t_pc
    /\ UNCHANGED <<mode, HAS_REQUESTS, api_key, call, wire, ret, events, dflt, budget, devs,
                   report, written, dumped, twin_on, fault_at, t_report, t_written>>

NextMain ==
    \/ Explorer_generate_report
    \/ Explorer_test_proxy_connection
    \/ Explorer_get_available_endpoints
    \/ Explorer_test_artificialanalysis_direct
    \/ Explorer_test_proxy_artificialanalysis_integration
    \/ Explorer_test_artificialanalysis_with_key
    \/ Explorer_explore_llm_endpoints
    \/ Client_generate_comprehensive_report
    \/ Client_get_api_key_from_proxy
    \/ Client_request_api_key_via_proxy
    \/ Client_test_api_access_via_proxy
    \/ save_report
    \/ print_summary

Next ==
    \/ Return
    \/ Call_get_api_key_from_proxy
    \/ Call_get_llm_models_direct
    \/ Call_get_media_models
    \/ Call_test_all_endpoints
    \/ Call_test_proxy_connection
    \/ Call_get_available_endpoints
    \/ Call_query_via_proxy
    \/ NextMain

Spec == Init /\ [][Next]_vars

\* A run of main together with its twin.
SpecTwin == InitTwin /\ [][NextMain]_vars

\* A run of main, up to the file it writes.
SpecSave == InitSave /\ [][NextMain]_vars

\* The text of the file save_report wrote: main does not touch the report
\* between generating it and saving it.
file_text == json_dump(py_object(dumped))

\* json.load of the written file.
file_loaded == json_loads(file_text)
\* ------------------------------------------------------------ properties

AbsentKey(k) == ~Truthy(k)
Is2xx(o) == o.kind = "response" /\ o.status_code >= 200 /\ o.status_code < 300
\* A response that carries a JSON document / one whose body is no JSON text.
HasJsonBody(o) == o.kind = "response" /\ "doc" \in DOMAIN o
NonJsonBody(o) == o.kind = "response" /\ "doc" \notin DOMAIN o

\* C1: get_media_models called with a media_type that is none of text-to-image,
\* image-editing, text-to-speech, text-to-video, image-to-video returns a result
\* with status "error" and issues no network request (neither session.get nor
\* curl), whatever the api_key.
C1_InvalidMediaTypeRejected ==
    (call.method = "get_media_models"
     /\ call.media_type \notin {"text-to-image", "image-editing", "text-to-speech",
                                "text-to-video", "image-to-video"})
    => (~ret.raised /\ ret.val.status = "error" /\ Requests(events) = <<>>)

C1_Witness ==
    /\ call.method = "get_media_models"
    /\ call.media_type = "text-to-audio"
    /\ call.api_key = PyStr(<<"aa-key">>)
    /\ wire = <<JsonResponse(200, JsonHeaders, ModelsDoc)>>
    /\ ret = [raised |-> FALSE, val |-> [status |-> "error", error |-> invalid_media_type_message]]
    /\ events = <<>>

\* C2: get_llm_models_direct called without a credential (None or the empty
\* string) returns status "error" with the error "API key required", and no
\* network request is attempted.
C2_LlmModelsNeedKey ==
    (call.method = "get_llm_models_direct" /\ AbsentKey(call.api_key))
    => (/\ ~ret.raised
        /\ ret.val.status = "error"
        /\ ret.val.error = "API key required"
        /\ Requests(events) = <<>>)

C2_Witness ==
    /\ call.method = "get_llm_models_direct"
    /\ call.api_key = PyStr(<<>>)
    /\ HAS_REQUESTS
    /\ wire = <<JsonResponse(200, JsonHeaders, ModelsDoc)>>
    /\ ret.val.error = "API key required"
    /\ events = <<>>

KeyRequired(r) == "status" \in DOMAIN r /\ r.status = "error" /\ r.error = "API key required"

\* C3: every credentialed probe, get_media_models with a valid media_type and
\* each of the six probes of test_all_endpoints included, answers an absent
\* credential (None or empty) with a key-required error result before any
\* network request is issued.
C3_EveryProbeNeedsKey ==
    /\ (call.method = "get_llm_models_direct" /\ AbsentKey(call.api_key))
       => (~ret.raised /\ KeyRequired(ret.val) /\ Requests(events) = <<>>)
    /\ (call.method = "get_media_models" /\ AbsentKey(call.api_key)
        /\ call.media_type \in Range(valid_types))
       => (~ret.raised /\ KeyRequired(ret.val) /\ Requests(events) = <<>>)
    /\ (call.method = "test_all_endpoints" /\ AbsentKey(call.api_key))
       => (/\ ~ret.raised
           /\ KeyRequired(ret.val.llm_models)
           /\ \A m \in DOMAIN ret.val.media_models : KeyRequired(ret.val.media_models[m])
           /\ Requests(events) = <<>>)

\* C9: every result of get_media_models has a status and is either a success
\* result carrying data or an error result carrying error and the media_type
\* that was attempted; the error result for a rejected media_type carries that
\* media_type too.
C9_MediaResultShape ==
    call.method = "get_media_models"
    => (/\ ~ret.raised
        /\ "status" \in DOMAIN ret.val
        /\ \/ ret.val.status = "success" /\ "data" \in DOMAIN ret.val
           \/ /\ ret.val.status = "error"
              /\ "error" \in DOMAIN ret.val
              /\ "media_type" \in DOMAIN ret.val
              /\ ret.val.media_type = call.media_type)

\* C10: with a non-empty credential and a call answered by a 2xx response
\* whose JSON body is B, get_llm_models_direct returns status "success" and
\* data equal to B, for every B of JsonDocs.
C10_LlmModelsData ==
    (call.method = "get_llm_models_direct" /\ Truthy(call.api_key)
     /\ Is2xx(wire[1]) /\ HasJsonBody(wire[1]))
    => (~ret.raised /\ ret.val.status = "success" /\ ret.val.data = wire[1].doc)

C10_Witness ==
    /\ call.method = "get_llm_models_direct"
    /\ call.api_key = PyStr(<<"aa-key">>)
    /\ HAS_REQUESTS
    /\ wire = <<JsonResponse(200, JsonHeaders, ModelsDoc)>>
    /\ ret.val.status = "success"
    /\ ret.val.data = ModelsDoc
    /\ Len(Requests(events)) = 1

ProbePaths == IF mode = "explorer" THEN ExplorerPaths ELSE ClientPaths
Recorded(path) == Nav(report, path) # Absent
Returned == pc \in {"save_report", "summary", "done"}

\* C4: whatever calls succeed and whatever calls meet a transport failure,
\* generate_report returns a report with all six sections under
\* exploration_results, and generate_comprehensive_report one with all three
\* entries under access_attempts, proxy_queries holding query_1, query_2, query_3.
C4_AllSectionsPresent ==
    /\ pc = "crashed" => written
    /\ (mode = "explorer" /\ Returned)
       => DOMAIN report.exploration_results =
             {"proxy_connection", "available_endpoints", "direct_api_access",
              "proxy_integration", "authenticated_access", "llm_endpoints"}
    /\ (mode = "client" /\ Returned)
       => /\ DOMAIN report.access_attempts =
               {"api_key_retrieval", "proxy_queries", "proxy_capabilities"}
          /\ DOMAIN report.access_attempts.proxy_queries = {"query_1", "query_2", "query_3"}

C4_Witness ==
    /\ mode = "client" /\ pc = "save_report"
    /\ dflt = TheFault /\ devs = 0 /\ HAS_REQUESTS
    /\ \A q \in {"query_1", "query_2", "query_3"} :
         report.access_attempts.proxy_queries[q].error = "ConnectionError"
    /\ report.access_attempts.proxy_capabilities.status = "error"

\* C6: once test_artificialanalysis_direct has returned, its result holds an
\* entry for each of the 4 base URLs and under each an entry for each of the 6
\* endpoint suffixes; once test_proxy_artificialanalysis_integration has
\* returned, its result holds an entry for each of the 8 endpoints; whatever
\* requests fail, all of them included.
C6_SweepsComplete ==
    /\ Recorded(<<"exploration_results", "direct_api_access">>)
       => /\ DOMAIN report.exploration_results.direct_api_access = Range(potential_bases)
          /\ Cardinality(Range(potential_bases)) = 4
          /\ Cardinality(Range(endpoints_to_test)) = 6
          /\ \A b \in Range(potential_bases) :
               /\ "endpoints" \in DOMAIN report.exploration_results.direct_api_access[b]
               /\ DOMAIN report.exploration_results.direct_api_access[b].endpoints
                    = Range(endpoints_to_test)
    /\ Recorded(<<"exploration_results", "proxy_integration">>)
       => /\ DOMAIN report.exploration_results.proxy_integration = Range(potential_endpoints)
          /\ Cardinality(Range(potential_endpoints)) = 8

C6_Witness ==
    /\ mode = "explorer" /\ pc = "authenticated_access"
    /\ dflt = TheFault /\ devs = 0
    /\ \A i \in DOMAIN DirectPaths :
         Nav(report, DirectPaths[i]) = [error |-> "ConnectionError", accessible |-> FALSE]
    /\ \A i \in DOMAIN ProxyPaths :
         Nav(report, ProxyPaths[i]) = [error |-> "ConnectionError", accessible |-> FALSE]
    /\ Len(Requests(events)) = 8

HasStatus(v) == "status" \in DOMAIN v /\ v.status \in {"success", "error"}

\* The places of the results that carry a status: those of test_proxy_connection,
\* get_available_endpoints, query_via_proxy and test_api_access_via_proxy.
StatusPaths ==
    IF mode = "explorer" THEN SubSeq(ExplorerPaths, 1, 2) \o AuthPaths
    ELSE <<ClientPaths[Len(ClientPaths)]>>
\* The places of the other results: api_key_retrieval, the query_N entries, the
\* per-endpoint entries of the two sweeps and the llm_endpoints entries.
PlainPaths ==
    IF mode = "explorer" THEN DirectPaths \o ProxyPaths \o LlmPaths
    ELSE <<ClientPaths[1]>> \o QueryPaths

\* C7 (as claimed): every probe result stored in a report carries a status
\* that is "success" or "error": the api_key_retrieval entry, each query_N
\* entry, each per-endpoint entry of the two sweeps, each llm_endpoints entry
\* and every result of get_available_endpoints included.
C7_EveryResultHasStatus ==
    /\ \A i \in DOMAIN ProbePaths :
         Recorded(ProbePaths[i]) => HasStatus(Nav(report, ProbePaths[i]))
    /\ call.method = "get_available_endpoints" => (~ret.raised /\ HasStatus(ret.val))

\* C7 (amended): the results of test_proxy_connection, get_available_endpoints,
\* query_via_proxy and test_api_access_via_proxy stored in a report carry a
\* status that is "success" or "error"; the api_key_retrieval entry (None), the
\* query_N entries, the per-endpoint entries of the two sweeps and the
\* llm_endpoints entries carry no status field.
C7_StatusWhereTheCodeSetsIt ==
    /\ \A p \in Range(StatusPaths) : \A v \in {Nav(report, p)} : v # Absent => HasStatus(v)
    /\ \A p \in Range(PlainPaths) :
         \A v \in {Nav(report, p)} : v # Absent => "status" \notin DOMAIN v
    /\ call.method \in {"test_proxy_connection", "get_available_endpoints", "query_via_proxy"}
       => (~ret.raised /\ HasStatus(ret.val))

C7_Witness ==
    /\ mode = "explorer" /\ pc = "done"
    /\ report.exploration_results.proxy_connection.status = "error"
    /\ report.exploration_results.available_endpoints.status = "success"
    /\ report.exploration_results.authenticated_access.auth_query.status = "error"
    /\ DOMAIN report.exploration_results.llm_endpoints["/api/llms"] = {"error"}

\* The i-th request of the last step got a body that is no JSON text.
NonJsonAt(at, i) == pc = at /\ i \in DOMAIN wire /\ NonJsonBody(wire[i])
Announced(o) == StartsWithJson(headers_get(o, "content-type", ""))
DecodeError == "JSONDecodeError"

C5_FaultIsolated ==
    (twin_on /\ written)
    => /\ t_written
       /\ DOMAIN t_report = DOMAIN report
       /\ \A i \in DOMAIN ProbePaths :
            ProbePaths[i] # fault_at
            => /\ Nav(t_report, ProbePaths[i]) # Absent
               /\ Nav(t_report, ProbePaths[i]) = Nav(report, ProbePaths[i])

C5_Witness ==
    /\ twin_on /\ written /\ t_written
    /\ mode = "explorer"
    /\ fault_at \in Range(DirectPaths)
    /\ "status_code" \in DOMAIN Nav(report, fault_at)
    /\ Nav(t_report, fault_at) = [error |-> "ConnectionError", accessible |-> FALSE]

\* C11: for every report of generate_report or generate_comprehensive_report,
\* parsing the file save_report wrote yields a structure equal to the report
\* main then uses for the summary (a value that is no JSON primitive would
\* stand as its string form; no report holds one).
C11_FileRoundTrip ==
    written => (~file_loaded.raised /\ file_loaded.val = py_object(report))

C11_Witness ==
    /\ mode = "explorer" /\ pc = "done"
    /\ dflt = RawResponse(200, JsonHeaders, HtmlBody)
    /\ QUOTE \in Range(report.exploration_results.direct_api_access[potential_bases[1]]
                          .endpoints["/models"].sample_data.str)
    /\ Len(file_text) > 100
    /\ file_loaded.val = py_object(report)
\* ---------------------------------------------------------------- C12

\* C12: the client never derives or caches a credential: whatever has been
\* called, its api_key attribute is None; get_api_key_from_proxy returns None
\* for every answer of the proxy and every fault; and the api_key_retrieval
\* entry of the comprehensive report is None, which the file shows as null.
C12_NoCredential ==
    /\ api_key = None
    /\ call.method = "get_api_key_from_proxy" => ret = [raised |-> FALSE, val |-> None]
    /\ (mode = "client" /\ Recorded(ClientPaths[1])) => Nav(report, ClientPaths[1]) = None

\* The proxy answered the question about the key with a text that is not the
\* filter's notice, and the call still returned None.
C12_Witness ==
    /\ call.method = "get_api_key_from_proxy"
    /\ wire[1].kind = "response"
    /\ wire[1].status_code = 200
    /\ "doc" \in DOMAIN wire[1]
    /\ wire[1].doc = AnswerDoc
    /\ ret = [raised |-> FALSE, val |-> None]
    /\ api_key = None

\* ---------------------------------------------------------------- C13

\* The events of the sweep that has just ended: test_artificialanalysis_direct
\* leaves the run at proxy_integration, the proxy sweep at authenticated_access.
SweepEnded == mode = "explorer" /\ pc \in {"proxy_integration", "authenticated_access"}

\* Two requests with no request between them have a sleep of 0.5 s between them.
SleepBetweenRequests(evs) ==
    \A i, j \in DOMAIN evs :
      (/\ i < j
       /\ IsRequest(evs[i])
       /\ IsRequest(evs[j])
       /\ \A k \in (i + 1)..(j - 1) : ~IsRequest(evs[k]))
      => \E k \in (i + 1)..(j - 1) : evs[k] = Sleep(500)

\* C13: within each discovery sweep (test_artificialanalysis_direct over 4
\* bases x 6 endpoints, test_proxy_artificialanalysis_integration over 8
\* endpoints) a 0.5 second sleep occurs between every two consecutive
\* requests: no two requests of a sweep are issued back to back.
C13_SleepBetweenRequests == SweepEnded => SleepBetweenRequests(events)

\* ---------------------------------------------------------------- C14

\* What the claim requires of the entry e recorded for a request with outcome o.
StatusRecorded(o, e) ==
    /\ o.kind = "response"
       => /\ "status_code" \in DOMAIN e
          /\ e.status_code = o.status_code
          /\ e.accessible = (o.status_code < 500)
          /\ "error" \notin DOMAIN e
    /\ ("error" \in DOMAIN e /\ e.accessible = FALSE) => IsFault(o)

DirectSweepEnded == mode = "explorer" /\ pc = "proxy_integration"
ProxySweepEnded == mode = "explorer" /\ pc = "authenticated_access"

\* C14: in both discovery sweeps, for every request that returns an HTTP
\* response with status code s (2xx or not) the recorded entry has
\* status_code = s and accessible = (s < 500) and is no error entry; an entry
\* with accessible = false and an error field is recorded only when the
\* request itself raised a network-level fault.
C14_StatusRecorded ==
    /\ DirectSweepEnded
       => \A i \in DOMAIN DirectPaths : StatusRecorded(wire[i], Nav(report, DirectPaths[i]))
    /\ ProxySweepEnded
       => \A i \in DOMAIN ProxyPaths : StatusRecorded(wire[i], Nav(report, ProxyPaths[i]))

====
